---- MODULE Spec2Model ----
(***************************************************************************)
(* Model of scripts/generate_snapshots.py: the catalog of cases (CASES),   *)
(* the options normalization (to_json_kwargs), the snapshot loop and the   *)
(* write of tests/fixtures/python_snapshots.json.                          *)
(***************************************************************************)
EXTENDS Integers, Sequences, FiniteSets, TLC

VARIABLES
  np,         \* numpy was imported (FALSE: np = None)
  pd,         \* pandas was imported (FALSE: pd = None)
  CASES,      \* the catalog, a dict in insertion order: <<[key, value], ...>>
  registered, \* history: every registration made, in the order it was made
  pc,         \* position of the script
  idx,        \* position of the snapshot loop (and then of json.dump) in its dict
  snapshots,  \* the snapshot store, a dict in insertion order
  calls,      \* history: the calls of tabulate, in order
  file,       \* tests/fixtures/python_snapshots.json
  opens,      \* history: how many times the file was opened for writing
  err         \* the exception that ended the script, "none" if none did

vars == <<np, pd, CASES, registered, pc, idx, snapshots, calls, file, opens, err>>

(***************************************************************************)
(* Python values.  Every value is a record of the same shape, so that any  *)
(* two values can be compared:                                             *)
(*   tag  : "str" "int" "bool" "none"   primitives (val is the literal)    *)
(*          "list" "tuple"              kids are the elements              *)
(*          "dict"                      keys[i] maps to kids[i], in order  *)
(*          "ndarray"                   numpy array, kids are its elements *)
(*          "npscalar"                  numpy int64 scalar, val its digits *)
(*          "dataframe"                 kids = <<columns, values, index,   *)
(*                                               index.names>>             *)
(*          "object"                    any other native object            *)
(*          "absent"                    the key is not in the dict         *)
(*          "raise"                     the expression raised (val = type) *)
(***************************************************************************)
Val(t, v, ks, xs) == [tag |-> t, val |-> v, keys |-> ks, kids |-> xs]
StrV(s) == Val("str", s, <<>>, <<>>)
IntV(s) == Val("int", s, <<>>, <<>>)
PyTrue == Val("bool", "True", <<>>, <<>>)
None == Val("none", "None", <<>>, <<>>)
List(xs) == Val("list", "", <<>>, xs)
Tuple(xs) == Val("tuple", "", <<>>, xs)
Dict(ks, xs) == Val("dict", "", ks, xs)
NdArray(xs) == Val("ndarray", "", <<>>, xs)
NpScalar(s) == Val("npscalar", s, <<>>, <<>>)
DataFrame(columns, values, index, names) == Val("dataframe", "", <<>>, <<columns, values, index, names>>)
Object(s) == Val("object", s, <<>>, <<>>)
Absent == Val("absent", "", <<>>, <<>>)
Raise(e) == Val("raise", e, <<>>, <<>>)

PrimTags == {"str", "int", "bool", "none"}

\* numpy scalar .item(): the plain Python int
Item(v) == IntV(v.val)

\* ndarray.tolist(): nested lists of plain Python scalars; the rows of a
\* structured array come out as tuples
RECURSIVE ToList(_)
ToList(v) ==
  CASE v.tag = "ndarray" -> List([ix \in 1..Len(v.kids) |-> ToList(v.kids[ix])])
    [] v.tag = "tuple" -> Tuple([ix \in 1..Len(v.kids) |-> ToList(v.kids[ix])])
    [] v.tag = "npscalar" -> Item(v)
    [] OTHER -> v

\* repr() and str() of a value, as far as the script prints values
RECURSIVE JoinRepr(_, _)
RECURSIVE PyRepr(_)
JoinRepr(xs, i) ==
  IF i > Len(xs) THEN ""
  ELSE PyRepr(xs[i]) \o (IF i < Len(xs) THEN ", " ELSE "") \o JoinRepr(xs, i + 1)
PyRepr(v) ==
  CASE v.tag = "str" -> "'" \o v.val \o "'"
    [] v.tag \in {"int", "bool", "none", "npscalar"} -> v.val
    [] v.tag = "tuple" ->
         "(" \o JoinRepr(v.kids, 1) \o (IF Len(v.kids) = 1 THEN "," ELSE "") \o ")"
    [] v.tag = "list" -> "[" \o JoinRepr(v.kids, 1) \o "]"
    [] OTHER -> "<" \o v.tag \o " " \o v.val \o ">"
PyStr(v) == IF v.tag = "str" THEN v.val ELSE PyRepr(v)

\* what json.dump can encode, and what it writes: a tuple is written as an
\* array, a numpy scalar or array or any other object is a TypeError
RECURSIVE Serializable(_)
Serializable(v) ==
  CASE v.tag \in PrimTags -> TRUE
    [] v.tag \in {"list", "tuple", "dict"} ->
         \A i \in 1..Len(v.kids) : Serializable(v.kids[i])
    [] OTHER -> FALSE
RECURSIVE JsonOf(_)
JsonOf(v) ==
  CASE v.tag \in {"list", "tuple"} -> List([ix \in 1..Len(v.kids) |-> JsonOf(v.kids[ix])])
    [] v.tag = "dict" -> Dict(v.keys, [ix \in 1..Len(v.kids) |-> JsonOf(v.kids[ix])])
    [] OTHER -> v

\* dict.get(key, default) on a case
Get(case, key, default) == IF case[key] = Absent THEN default ELSE case[key]

(***************************************************************************)
(* Options normalization, lines 19-28.  np is the module global: when     *)
(* numpy is missing, evaluating np.ndarray for the first value that is not *)
(* a tuple raises AttributeError.                                          *)
(***************************************************************************)
\* a normalization that leaves tuples as they are
to_json_kwargs_keepTuples(kwargs) ==
  LET conv(v) == IF v.tag = "ndarray" THEN ToList(v) ELSE v
  IN IF ~np /\ \E i \in 1..Len(kwargs.kids) : kwargs.kids[i].tag # "tuple"
     THEN Raise("AttributeError")
     ELSE Dict(kwargs.keys, [ix \in 1..Len(kwargs.kids) |-> conv(kwargs.kids[ix])])
to_json_kwargs(kwargs) ==
  LET conv(v) == CASE v.tag = "tuple" -> List(v.kids)
                   [] v.tag = "ndarray" -> ToList(v)
                   [] OTHER -> v
  IN IF ~np /\ \E i \in 1..Len(kwargs.kids) : kwargs.kids[i].tag # "tuple"
     THEN Raise("AttributeError")
     ELSE Dict(kwargs.keys, [ix \in 1..Len(kwargs.kids) |-> conv(kwargs.kids[ix])])

(***************************************************************************)
(* to_json_value, lines 194-201                                            *)
(***************************************************************************)
RECURSIVE to_json_value(_)
to_json_value(value) ==
  CASE value.tag \in PrimTags -> value
    [] value.tag = "npscalar" -> Item(value)
    [] value.tag = "ndarray" ->
         IF Len(value.kids) = 1 /\ value.kids[1].tag = "npscalar"
         THEN Item(value.kids[1]) ELSE Raise("ValueError")
    [] value.tag \in {"list", "tuple"} -> List([ix \in 1..Len(value.kids) |-> to_json_value(value.kids[ix])])
    [] OTHER -> StrV(PyStr(value))

(***************************************************************************)
(* dataframe_repr, lines 206-234.  df.kids = <<columns, values, index,     *)
(* index.names>>.                                                          *)
(***************************************************************************)
dataframe_repr(df, include_index) ==
  LET row(r) == List([ix \in 1..Len(r.kids) |-> to_json_value(r.kids[ix])])
      data == List([ix \in 1..Len(ToList(df.kids[2]).kids) |-> row(ToList(df.kids[2]).kids[ix])])
      columns == List([ix \in 1..Len(df.kids[1].kids) |-> to_json_value(df.kids[1].kids[ix])])
      indexval(value) == IF value.tag = "tuple" THEN StrV(PyStr(Tuple(value.kids)))
                         ELSE to_json_value(value)
      index == IF include_index THEN List([ix \in 1..Len(df.kids[3].kids) |-> indexval(df.kids[3].kids[ix])]) ELSE None
      index_names == SelectSeq(df.kids[4].kids, LAMBDA name : name # None)
      index_label == IF include_index /\ Len(index_names) = 1 THEN index_names[1] ELSE None
      base == Dict(<<"__tabulate_dataframe__", "columns", "data">>, <<PyTrue, columns, data>>)
      withindex == IF index # None
                   THEN Dict(Append(base.keys, "index"), Append(base.kids, index))
                   ELSE base
  IN IF index_label # None
     THEN Dict(Append(withindex.keys, "index_label"), Append(withindex.kids, index_label))
     ELSE withindex

(***************************************************************************)
(* Python dicts keep insertion order: d[k] = v on a key already present    *)
(* replaces the value where the key stands, on a new key appends.          *)
(***************************************************************************)
Item2(k, v) == [key |-> k, value |-> v]
Keys(d) == [i \in 1..Len(d) |-> d[i].key]
HasKey(d, k) == \E i \in 1..Len(d) : d[i].key = k
Lookup(d, k) == d[CHOOSE i \in 1..Len(d) : d[i].key = k].value
\* a dict that keeps the entry it already has
DictSet_keepFirst(d, k, v) ==
  IF HasKey(d, k) THEN d ELSE Append(d, [key |-> k, value |-> v])
\* a dict that moves a key set again to the end
DictSet_moveToEnd(d, k, v) ==
  Append(SelectSeq(d, LAMBDA e : e.key # k), [key |-> k, value |-> v])
DictSet(d, k, v) ==
  IF HasKey(d, k)
  THEN [i \in 1..Len(d) |-> IF d[i].key = k THEN Item2(k, v) ELSE d[i]]
  ELSE Append(d, Item2(k, v))
\* dict.update(other): d[k] = v for every item of other, in order
RECURSIVE DictUpdate(_, _)
DictUpdate(d, other) ==
  IF other = <<>> THEN d
  ELSE DictUpdate(DictSet(d, Head(other).key, Head(other).value), Tail(other))

(***************************************************************************)
(* The catalog.  A case is a dict with the optional keys python_data,      *)
(* data, data_repr and kwargs (lines 31-191).                              *)
(***************************************************************************)
Case(python_data, data, data_repr, kwargs) ==
  [python_data |-> python_data, data |-> data, data_repr |-> data_repr, kwargs |-> kwargs]

\* how many cases the literal part of the catalog registers
MaxReg == 2

\* line 42
Rows == List(<<List(<<StrV("Name"), StrV("Score")>>), List(<<StrV("Alice"), IntV("10")>>)>>)
\* line 126
RowsNoHeader == List(<<List(<<StrV("Alice"), IntV("10")>>), List(<<StrV("Bob"), IntV("1000")>>)>>)
\* line 166 and line 167
Points == List(<<Object("Point(x=1, y=2)"), Object("Point(x=3, y=4)")>>)
PointsRepr == List(<<Dict(<<"x", "y">>, <<IntV("1"), IntV("2")>>),
                     Dict(<<"x", "y">>, <<IntV("3"), IntV("4")>>)>>)
KwPlain == Dict(<<"tablefmt">>, <<StrV("plain")>>)
KwKeysPlain == Dict(<<"headers", "tablefmt">>, <<StrV("keys"), StrV("plain")>>)
\* lines 47-51
KwPipeColalign == Dict(<<"headers", "tablefmt", "colalign">>,
                       <<StrV("firstrow"), StrV("pipe"), Tuple(<<StrV("left"), StrV("right")>>)>>)
KwColalignOnly == Dict(<<"colalign">>, <<Tuple(<<StrV("right"), StrV("right")>>)>>)
KwNestedTuple == Dict(<<"colalign", "headers">>,
                      <<Tuple(<<StrV("left"), StrV("right")>>),
                        List(<<Tuple(<<StrV("Name"), StrV("n")>>), StrV("Score")>>)>>)
KwObject == Dict(<<"tablefmt", "missingval">>, <<StrV("plain"), Object("object()")>>)
KwNdArray == Dict(<<"tablefmt", "maxcolwidths">>,
                  <<StrV("plain"), NdArray(<<NpScalar("10"), NpScalar("20")>>)>>)

\* the registrations the literal part of the catalog is built from: a name
\* and the case registered under it
CaseSamples ==
  { Item2("plain_simple", Case(Absent, Rows, Absent, KwPlain)),
    Item2("plain_simple", Case(Absent, RowsNoHeader, Absent, KwColalignOnly)),
    Item2("plain_simple", Case(Absent, Absent, Absent, KwPlain)),       \* no data at all
    Item2("plain_simple", Case(None, Rows, Absent, KwPlain)),           \* python_data: None
    Item2("plain_simple", Case(Absent, Rows, Absent, KwNestedTuple)),   \* tuple inside an option
    Item2("plain_simple", Case(Absent, Rows, Absent, KwObject)),        \* option json cannot encode
    Item2("plain_simple", Case(Absent, Rows, Absent, Absent)),          \* no kwargs
    Item2("pipe_alignment", Case(Absent, Rows, Absent, KwPipeColalign)),
    Item2("pipe_alignment", Case(Absent, IntV("5"), Absent, KwColalignOnly)), \* data tabulate rejects
    Item2("pipe_alignment", Case(Absent, Rows, Absent, KwNdArray)),     \* array-valued option
    Item2("namedtuple_keys_plain", Case(Points, Absent, PointsRepr, KwKeysPlain)),
    Item2("namedtuple_keys_plain", Case(Points, Absent, Absent, KwKeysPlain)),    \* no data_repr
    Item2("namedtuple_keys_plain", Case(Absent, Absent, PointsRepr, KwKeysPlain)), \* data_repr alone
    Item2("namedtuple_keys_plain", Case(Absent, Rows, PointsRepr, KwColalignOnly)) } \* data and data_repr

\* a value built with numpy exists only when numpy was imported
RECURSIVE UsesNumpy(_)
UsesNumpy(v) ==
  \/ v.tag \in {"ndarray", "npscalar"}
  \/ \E i \in 1..Len(v.kids) : UsesNumpy(v.kids[i])
CaseUsesNumpy(case) ==
  \E f \in {"python_data", "data", "data_repr", "kwargs"} : UsesNumpy(case[f])

\* lines 236-245 and lines 252-255
multi_df ==
  DataFrame(List(<<StrV("A"), StrV("B")>>),
            NdArray(<<NdArray(<<NpScalar("1"), NpScalar("5")>>),
                      NdArray(<<NpScalar("2"), NpScalar("6")>>)>>),
            List(<<Tuple(<<StrV("foo"), StrV("one")>>), Tuple(<<StrV("foo"), StrV("two")>>)>>),
            List(<<StrV("first"), StrV("second")>>))
simple_df ==
  DataFrame(List(<<StrV("name"), StrV("score")>>),
            NdArray(<<NdArray(<<StrV("Alice"), IntV("10")>>),
                      NdArray(<<StrV("Bob"), IntV("20")>>)>>),
            List(<<StrV("row 1"), StrV("row 2")>>),
            List(<<StrV("id")>>))
\* line 263 and lines 270-272
ndarray == NdArray(<<NdArray(<<NpScalar("1"), NpScalar("2")>>),
                     NdArray(<<NpScalar("3"), NpScalar("4")>>)>>)
rec_array == NdArray(<<Tuple(<<NpScalar("1"), StrV("Alice")>>),
                       Tuple(<<NpScalar("2"), StrV("Bob")>>)>>)
\* lines 275-281
RecArrayRepr ==
  List(<<Dict(<<"__tabulate_numpy_recarray__", "dtype", "rows">>,
              <<PyTrue,
                List(<<Tuple(<<StrV("id"), StrV("i4")>>), Tuple(<<StrV("name"), StrV("U10")>>)>>),
                ToList(rec_array)>>)>>)

\* EXTRA_CASES, lines 285-362: a dict of further cases
ExtraSamples ==
  { <<>>,
    <<Item2("latex_raw_basic", Case(Absent, Rows, Absent, KwColalignOnly))>>,
    <<Item2("plain_simple", Case(Absent, RowsNoHeader, Absent, KwColalignOnly)),
      Item2("latex_raw_colalign", Case(Absent, Rows, Absent, KwPipeColalign))>> }

Init ==
  /\ np \in BOOLEAN
  /\ pd \in BOOLEAN
  /\ pd => np          \* pandas cannot be imported without numpy
  /\ CASES = <<>>
  /\ registered = <<>>
  /\ pc = "cases"
  /\ idx = 1
  /\ snapshots = <<>>
  /\ calls = <<>>
  /\ file = [old |-> TRUE, entries |-> <<>>, complete |-> FALSE]
  /\ opens = 0
  /\ err = "none"

\* CASES = {name: case, ...} and CASES[name] = case, lines 31-191
Register(name, case) ==
  /\ pc = "cases"
  /\ Len(registered) < MaxReg
  /\ CaseUsesNumpy(case) => np
  /\ CASES' = DictSet(CASES, name, case)
  /\ registered' = Append(registered, Item2(name, case))
  /\ UNCHANGED <<np, pd, pc, idx, snapshots, calls, file, opens, err>>

\* if pd is not None: ..., lines 204-260
PandasBlock ==
  /\ pc = "cases"
  /\ pc' = "numpy"
  /\ LET c1 == Case(multi_df, Absent, List(<<dataframe_repr(multi_df, TRUE)>>),
                    Dict(<<"headers", "tablefmt">>, <<StrV("keys"), StrV("grid")>>))
         c2 == Case(simple_df, Absent, List(<<dataframe_repr(simple_df, TRUE)>>), KwKeysPlain)
     IN IF pd
        THEN /\ CASES' = DictSet(DictSet(CASES, "dataframe_multiindex_grid", c1),
                                 "dataframe_index_label_plain", c2)
             /\ registered' = registered \o <<Item2("dataframe_multiindex_grid", c1),
                                               Item2("dataframe_index_label_plain", c2)>>
        ELSE UNCHANGED <<CASES, registered>>
  /\ UNCHANGED <<np, pd, idx, snapshots, calls, file, opens, err>>

\* if np is not None: ..., lines 262-283
NumpyBlock ==
  /\ pc = "numpy"
  /\ pc' = "extra"
  /\ LET c1 == Case(ndarray, Absent, ToList(ndarray), KwPlain)
         c2 == Case(rec_array, Absent, RecArrayRepr, KwKeysPlain)
     IN IF np
        THEN /\ CASES' = DictSet(DictSet(CASES, "numpy_array_plain", c1),
                                 "numpy_recarray_keys_plain", c2)
             /\ registered' = registered \o <<Item2("numpy_array_plain", c1),
                                               Item2("numpy_recarray_keys_plain", c2)>>
        ELSE UNCHANGED <<CASES, registered>>
  /\ UNCHANGED <<np, pd, idx, snapshots, calls, file, opens, err>>

\* CASES.update(EXTRA_CASES), line 364
UpdateExtra(EXTRA_CASES) ==
  /\ pc = "extra"
  /\ pc' = "loop"
  /\ CASES' = DictUpdate(CASES, EXTRA_CASES)
  /\ registered' = registered \o EXTRA_CASES
  /\ UNCHANGED <<np, pd, idx, snapshots, calls, file, opens, err>>

(***************************************************************************)
(* The snapshot loop, lines 367-378                                        *)
(***************************************************************************)
\* a lookup that falls back to the override as the data to render
PythonData_orOverride(case) ==
  Get(case, "python_data", Get(case, "data", Get(case, "data_repr", None)))
\* line 369: python_data = case.get("python_data", case.get("data"))
PythonData(case) == Get(case, "python_data", Get(case, "data", None))

\* line 375: case.get("data_repr", case.get("data"))
SnapshotData(case) == Get(case, "data_repr", Get(case, "data", None))

\* a call that renders the canonical data with the normalized options
OracleArgs_canonical(case) ==
  [data |-> Get(case, "data_repr", Get(case, "data", None)),
   kwargs |-> IF case.kwargs = Absent THEN Absent ELSE to_json_kwargs(case.kwargs)]
\* line 373: the arguments tabulate is called with
OracleArgs(case) == [data |-> PythonData(case), kwargs |-> case.kwargs]

\* tabulate(data, **kwargs): the text rendered for these arguments, one text
\* per pair of arguments; data that is not iterable is a TypeError
Tabulate(data, kwargs) ==
  IF data.tag \in {"int", "bool"} THEN Raise("TypeError")
  ELSE Val("str", "tabulate", <<>>, <<data, kwargs>>)

Fail(e) == pc' = "failed" /\ err' = e

\* one iteration of the loop body
ProcessCase ==
  /\ pc = "loop"
  /\ idx <= Len(CASES)
  /\ LET name == CASES[idx].key
         case == CASES[idx].value
         python_data == PythonData(case)
         args == OracleArgs(case)
         output == Tabulate(args.data, args.kwargs)
         call == [name |-> name, data |-> args.data, kwargs |-> args.kwargs, ret |-> output]
         kwargs == to_json_kwargs(case.kwargs)
     IN IF python_data = None
        THEN Fail("ValueError") /\ UNCHANGED <<idx, snapshots, calls>>
        ELSE IF case.kwargs = Absent
        THEN Fail("KeyError") /\ UNCHANGED <<idx, snapshots, calls>>
        ELSE IF output.tag = "raise"
        THEN Fail(output.val) /\ calls' = Append(calls, call) /\ UNCHANGED <<idx, snapshots>>
        ELSE IF kwargs.tag = "raise"
        THEN Fail(kwargs.val) /\ calls' = Append(calls, call) /\ UNCHANGED <<idx, snapshots>>
        ELSE /\ snapshots' = DictSet(snapshots, name,
                                     [data |-> SnapshotData(case), kwargs |-> kwargs,
                                      output |-> output])
             /\ calls' = Append(calls, call)
             /\ idx' = idx + 1
             /\ UNCHANGED <<pc, err>>
  /\ UNCHANGED <<np, pd, CASES, registered, file, opens>>

(***************************************************************************)
(* Writing the fixture, lines 380-384.  open(..., "w") empties the file;   *)
(* json.dump with indent writes the encoding piece by piece, so a value it *)
(* cannot encode ends the script with the pieces before it written.        *)
(***************************************************************************)
\* a script that opens the file while cases are still to be processed
OpenFixture_early ==
  /\ pc = "loop"
  /\ file' = [old |-> FALSE, entries |-> <<>>, complete |-> FALSE]
  /\ opens' = opens + 1
  /\ pc' = "dump"
  /\ idx' = 1
  /\ UNCHANGED <<np, pd, CASES, registered, snapshots, calls, err>>
OpenFixture ==
  /\ pc = "loop"
  /\ idx > Len(CASES)
  /\ file' = [old |-> FALSE, entries |-> <<>>, complete |-> FALSE]
  /\ opens' = opens + 1
  /\ pc' = "dump"
  /\ idx' = 1
  /\ UNCHANGED <<np, pd, CASES, registered, snapshots, calls, err>>

DumpEntry ==
  /\ pc = "dump"
  /\ idx <= Len(snapshots)
  /\ LET name == snapshots[idx].key
         snap == snapshots[idx].value
     IN IF Serializable(snap.data) /\ Serializable(snap.kwargs)
        THEN /\ file' = [file EXCEPT !.entries =
                           Append(@, Item2(name, [data |-> JsonOf(snap.data),
                                                  kwargs |-> JsonOf(snap.kwargs),
                                                  output |-> snap.output]))]
             /\ idx' = idx + 1
             /\ UNCHANGED <<pc, err>>
        ELSE Fail("TypeError") /\ UNCHANGED <<file, idx>>
  /\ UNCHANGED <<np, pd, CASES, registered, snapshots, calls, opens>>

CloseFixture ==
  /\ pc = "dump"
  /\ idx > Len(snapshots)
  /\ file' = [file EXCEPT !.complete = TRUE]
  /\ pc' = "done"
  /\ UNCHANGED <<np, pd, CASES, registered, idx, snapshots, calls, opens, err>>

Next ==
  \/ \E reg \in CaseSamples : Register(reg.key, reg.value)
  \/ PandasBlock
  \/ NumpyBlock
  \/ \E EXTRA_CASES \in ExtraSamples : UpdateExtra(EXTRA_CASES)
  \/ ProcessCase
  \/ OpenFixture
  \/ DumpEntry
  \/ CloseFixture

Spec == Init /\ [][Next]_vars

(***************************************************************************)
(* Properties                                                              *)
(***************************************************************************)
RegNames == [i \in 1..Len(registered) |-> registered[i].key]
NameSet == {RegNames[i] : i \in 1..Len(RegNames)}
LastIndex(n) == CHOOSE i \in 1..Len(registered) :
                  registered[i].key = n /\ \A j \in (i + 1)..Len(registered) : registered[j].key # n
LastRegistered(n) == registered[LastIndex(n)].value
\* the names in the order of their first, and of their last, registration
RECURSIVE KeepFirst(_, _)
KeepFirst(ns, i) ==
  IF i > Len(ns) THEN <<>>
  ELSE (IF \E j \in 1..(i - 1) : ns[j] = ns[i] THEN <<>> ELSE <<ns[i]>>) \o KeepFirst(ns, i + 1)
RECURSIVE KeepLast(_, _)
KeepLast(ns, i) ==
  IF i > Len(ns) THEN <<>>
  ELSE (IF \E j \in (i + 1)..Len(ns) : ns[j] = ns[i] THEN <<>> ELSE <<ns[i]>>) \o KeepLast(ns, i + 1)
Reregistered == \E i, j \in 1..Len(registered) :
                  i < j /\ registered[i].key = registered[j].key
                        /\ registered[i].value # registered[j].value
\* the first tabulate call made for a name
CallOf(n) == calls[CHOOSE j \in 1..Len(calls) : calls[j].name = n]

\* C1: when numpy or pandas is missing the run still completes: no error is
\* raised because of the missing library (the AttributeError of np.ndarray on
\* np = None), and a run that ends has rendered and written every case.
C1_MissingLibraryNoError ==
  (~np \/ ~pd) => /\ err # "AttributeError"
                  /\ (pc = "done" => Keys(file.entries) = Keys(CASES))

\* C2: whichever step fails, the fixture file afterwards is either the complete
\* new corpus (the run succeeded) or the file that existed before the run (the
\* run failed), never empty, truncated or partial.
C2_FixtureCompleteOrUntouched ==
  /\ (pc = "failed" => file.old)
  /\ (pc = "done" => ~file.old /\ file.complete /\ Keys(file.entries) = Keys(CASES))

\* C3: the file is opened for writing at most once, and only after every case
\* of the catalog has its snapshot in the store.
C3_WriteOnceAfterAllCases ==
  /\ opens <= 1
  /\ (opens > 0 \/ ~file.old) =>
       /\ pc \in {"dump", "done", "failed"}
       /\ \A i \in 1..Len(CASES) : HasKey(snapshots, CASES[i].key)
C3_Witness == pc = "done" /\ opens = 1 /\ Len(CASES) >= 3 /\ Len(file.entries) = Len(CASES)

\* C4: after a successful run the names of the store are the names registered,
\* one snapshot per name, each built from the last registration of its name
\* alone.
C4_StoreMatchesCatalog ==
  pc = "done" =>
    /\ {snapshots[i].key : i \in 1..Len(snapshots)} = NameSet
    /\ Len(snapshots) = Cardinality(NameSet)
    /\ \A n \in NameSet :
         LET case == LastRegistered(n)
             snap == Lookup(snapshots, n)
         IN /\ snap.data = (IF case.data_repr # Absent THEN case.data_repr ELSE
                            IF case.data # Absent THEN case.data ELSE None)
            /\ snap.kwargs = to_json_kwargs(case.kwargs)
            /\ snap.output = Tabulate(IF case.python_data # Absent THEN case.python_data
                                      ELSE case.data, case.kwargs)
C4_Witness ==
  /\ pc = "done"
  /\ \E i, j \in 1..Len(registered) :
       /\ i < j /\ registered[i].key = registered[j].key
       /\ registered[i].value.data_repr # Absent
       /\ registered[j].value.data_repr = Absent

\* C5: options normalization is key-wise and shape-preserving: for the options
\* of every case the loop has rendered there is a result with the same keys in
\* the same order, a tuple has become the list of its elements, and a value
\* that is neither a tuple nor an array is unchanged.
C5_KwargsShapePreserved ==
  \A j \in 1..Len(calls) :
    calls[j].ret.tag # "raise" =>
      /\ HasKey(snapshots, calls[j].name)
      /\ LET kwargs == calls[j].kwargs
             result == Lookup(snapshots, calls[j].name).kwargs
         IN /\ result.tag = "dict"
            /\ result.keys = kwargs.keys
            /\ Len(result.kids) = Len(kwargs.kids)
            /\ \A i \in 1..Len(kwargs.kids) :
                 /\ kwargs.kids[i].tag = "tuple" =>
                      result.kids[i] = List(kwargs.kids[i].kids)
                 /\ kwargs.kids[i].tag \notin {"tuple", "ndarray"} =>
                      result.kids[i] = kwargs.kids[i]

\* C6: tabulate is called once per case, with the case's original data and its
\* original options, and the snapshot's output is what that call returned.
C6_OracleSeesOriginal ==
  /\ \A i \in 1..Len(calls) :
       LET case == Lookup(CASES, calls[i].name)
       IN /\ calls[i].data = (IF case.python_data # Absent THEN case.python_data
                              ELSE case.data)
          /\ calls[i].kwargs = case.kwargs
          /\ \A j \in 1..Len(calls) : j # i => calls[j].name # calls[i].name
  /\ \A i \in 1..Len(snapshots) :
       /\ \E j \in 1..Len(calls) : calls[j].name = snapshots[i].key
       /\ snapshots[i].value.output = CallOf(snapshots[i].key).ret
       /\ snapshots[i].value.output.tag = "str"
C6_Witness ==
  /\ pc = "done"
  /\ \E i \in 1..Len(snapshots) :
       /\ snapshots[i].value.data # CallOf(snapshots[i].key).data
       /\ snapshots[i].value.kwargs # CallOf(snapshots[i].key).kwargs

\* C7 as claimed: the store iterates in the order of final registration, a
\* name registered again moving to the end.
C7_FinalRegistrationOrder ==
  pc \in {"dump", "done"} => Keys(snapshots) = KeepLast(RegNames, 1)
\* C7 as amended: the store, and the file written from it, iterate in the order
\* in which each name was first registered; registering a name again replaces
\* the case where the name already stands.
C7_FirstRegistrationOrder ==
  /\ pc \in {"dump", "done"} => Keys(snapshots) = KeepFirst(RegNames, 1)
  /\ pc = "done" => Keys(file.entries) = KeepFirst(RegNames, 1)
C7_Witness ==
  /\ pc = "done"
  /\ Reregistered
  /\ KeepFirst(RegNames, 1) # KeepLast(RegNames, 1)

\* C8: a case with a data_repr has exactly that as its snapshot's data; a case
\* without one has its raw data's canonical form there, never null.
C8_DataOverrideOrCanonical ==
  \A i \in 1..Len(snapshots) :
    LET case == Lookup(CASES, snapshots[i].key)
        data == snapshots[i].value.data
    IN /\ case.data_repr # Absent => data = case.data_repr
       /\ case.data_repr = Absent => data # None /\ data # Absent

\* the entry has neither raw data (python_data, data) nor an override
NoDataAtAll(case) ==
  case.python_data = Absent /\ case.data = Absent /\ case.data_repr = Absent
\* what the loop takes as the data to render is missing: python_data where
\* that key is present, otherwise data, is absent or None
NoPythonData(case) ==
  \/ case.python_data = None
  \/ case.python_data = Absent /\ case.data \in {Absent, None}

\* C9 as claimed: the missing-data error is raised exactly for an entry with
\* neither raw data nor an override.
C9_RaisedIffNeither ==
  /\ (pc = "failed" /\ err = "ValueError") => NoDataAtAll(CASES[idx].value)
  /\ pc \in {"loop", "failed"} =>
       \A i \in 1..Len(CASES) :
         (i < idx \/ (i = idx /\ pc = "failed" /\ err # "ValueError")) =>
           ~NoDataAtAll(CASES[i].value)
\* C9 as amended: the missing-data error is raised exactly for an entry whose
\* python data (python_data, else data) is missing, whether or not it has a
\* data_repr, and before tabulate is called for it.
C9_RaisedIffNoPythonData ==
  /\ (pc = "failed" /\ err = "ValueError") =>
       /\ NoPythonData(CASES[idx].value)
       /\ \A j \in 1..Len(calls) : calls[j].name # CASES[idx].key
  /\ pc \in {"loop", "failed"} =>
       \A i \in 1..Len(CASES) :
         (i < idx \/ (i = idx /\ pc = "failed" /\ err # "ValueError")) =>
           ~NoPythonData(CASES[i].value)
C9_Witness ==
  /\ pc = "failed" /\ err = "ValueError"
  /\ CASES[idx].value.data_repr # Absent
  /\ idx > 1

\* only primitives, lists and string-keyed mappings, at every depth
RECURSIVE Canonical(_)
Canonical(v) ==
  CASE v.tag \in PrimTags -> TRUE
    [] v.tag \in {"list", "dict"} -> \A i \in 1..Len(v.kids) : Canonical(v.kids[i])
    [] OTHER -> FALSE

\* C10 as claimed: every data and kwargs value in the store is canonical at
\* every depth.
C10_StoreCanonical ==
  \A i \in 1..Len(snapshots) :
    Canonical(snapshots[i].value.data) /\ Canonical(snapshots[i].value.kwargs)
\* C10 as amended: in the store no option value is itself a tuple or an array
\* and the dataframe representations are canonical at every depth; every data
\* and kwargs value written to the file is canonical at every depth.
C10_TopLevelAndFileCanonical ==
  /\ \A i \in 1..Len(snapshots) :
       LET snap == snapshots[i].value
       IN /\ snap.kwargs.tag = "dict"
          /\ \A k \in 1..Len(snap.kwargs.kids) :
               snap.kwargs.kids[k].tag \notin {"tuple", "ndarray"}
          /\ snapshots[i].key \in {"dataframe_multiindex_grid", "dataframe_index_label_plain"}
               => Canonical(snap.data)
  /\ \A i \in 1..Len(file.entries) :
       Canonical(file.entries[i].value.data) /\ Canonical(file.entries[i].value.kwargs)
C10_Witness ==
  /\ pc = "done"
  /\ \E i, j, k \in 1..Len(snapshots) :
       /\ ~Canonical(snapshots[i].value.kwargs)
       /\ ~Canonical(snapshots[j].value.data)
       /\ snapshots[k].key = "dataframe_multiindex_grid"

====
